---- MODULE Spec2Model ----
(***************************************************************************)
(* Lodestone, an AT-URI resolver (src/main.go, the batch version of the    *)
(* handler at lines 217-442).                                              *)
(*                                                                         *)
(* One HTTP request for /resolve is modelled from the moment the handler    *)
(* collects its URIs to the moment it writes the response.  Every URI is   *)
(* resolved by its own goroutine; the goroutines interleave at their       *)
(* outbound http.Get calls, whose answers are chosen by the environment.   *)
(*                                                                         *)
(* Strings are sequences of symbols.  A symbol is either one character     *)
(* ("/", "a", " ") or a literal the code compares or prints as a whole     *)
(* ("at://", "did:", "#atproto_pds").                                      *)
(***************************************************************************)
EXTENDS Naturals, Sequences, FiniteSets

\* Largest number of URIs in one request.
MaxN == 2

\* The capacities of the two cache stores, scaled down from the documented
\* 4,096 DID entries and 8,192 XRPC entries (same ratio).
DIDCacheSize == 1

XRPCCacheSize == 2

----------------------------------------------------------------------------
(* package strings *)

HasPrefix(s, p) == Len(s) >= Len(p) /\ SubSeq(s, 1, Len(p)) = p

HasSuffix(s, p) == Len(s) >= Len(p) /\ SubSeq(s, Len(s) - Len(p) + 1, Len(s)) = p

TrimPrefix(s, p) == IF HasPrefix(s, p) THEN SubSeq(s, Len(p) + 1, Len(s)) ELSE s

TrimSuffix(s, p) == IF HasSuffix(s, p) THEN SubSeq(s, 1, Len(s) - Len(p)) ELSE s

\* strings.Split(s, "/"): always at least one part, the empty string splits
\* into one empty part.
RECURSIVE Split(_)
Split(s) ==
    IF \A i \in 1..Len(s) : s[i] # "/"
    THEN << s >>
    ELSE LET i == CHOOSE j \in 1..Len(s) :
                      s[j] = "/" /\ \A k \in 1..(j - 1) : s[k] # "/"
         IN  << SubSeq(s, 1, i - 1) >> \o Split(SubSeq(s, i + 1, Len(s)))

WhiteSpace == {" ", "\n", "\t", "\r"}

RECURSIVE TrimLeft(_)
TrimLeft(s) ==
    IF s # << >> /\ Head(s) \in WhiteSpace THEN TrimLeft(Tail(s)) ELSE s

RECURSIVE TrimRight(_)
TrimRight(s) ==
    IF s # << >> /\ s[Len(s)] \in WhiteSpace
    THEN TrimRight(SubSeq(s, 1, Len(s) - 1))
    ELSE s

TrimSpace(s) == TrimRight(TrimLeft(s))

(* package net/url *)

\* url.QueryEscape on one symbol: letters, digits, "-", "_", "." and "~"
\* are kept, a space becomes "+", every other byte becomes %XX.
EscapeSymbol(c) ==
    CASE c = "did:"  -> "did%3A"
      [] c = "plc:"  -> "plc%3A"
      [] c = "web:"  -> "web%3A"
      [] c = "key:"  -> "key%3A"
      [] c = "at://" -> "at%3A%2F%2F"
      [] c = "/"     -> "%2F"
      [] c = " "     -> "+"
      [] c = "\n"    -> "%0A"
      [] c = "<html>" -> "%3Chtml%3E"
      [] OTHER       -> c

QueryEscape(s) == [i \in 1..Len(s) |-> EscapeSymbol(s[i])]

----------------------------------------------------------------------------
(* The inputs: AT-URIs a client may send *)

DidPlcA == << "did:", "plc:", "a" >>
DidWebW == << "did:", "web:", "w" >>
DidKeyK == << "did:", "key:", "k" >>

URIPool ==
    { << "at://" >> \o DidPlcA,
      << "at://" >> \o DidPlcA \o << "/", "c" >>,
      << "at://" >> \o DidPlcA \o << "/", "c", "/", "r" >>,
      << "at://" >> \o DidPlcA \o << "/", "c", "/", "r", "/", "x" >>,
      << "at://" >> \o DidPlcA \o << "/", "/", "r" >>,
      << "at://", "h", "/", "c", "/", "r" >>,
      << "at://" >>,
      << "at://" >> \o DidKeyK,
      DidPlcA \o << "/", "c", "/", "r" >> }

\* The values given to the legacy `uri` parameter: the handler appends the
\* value to uris and resolves it like any other, so a repository URI and
\* the bare scheme stand for all.
LegacyPool ==
    { << "at://" >> \o DidPlcA,
      << "at://" >> }

\* The sequences over S of length n.
SeqOfLen(S, n) == [1..n -> S]

\* The query of a request: the repeatable `uris` values and the first value
\* of `uri` (the empty string when the parameter is absent).
Queries ==
    { q \in [uris : UNION { SeqOfLen(URIPool, n) : n \in 0..MaxN },
             uri  : LegacyPool \cup { << >> }] :
        Len(q.uris) + (IF q.uri = << >> THEN 0 ELSE 1) <= MaxN }

----------------------------------------------------------------------------
(* parseATURI *)

NoErr == "nil"

\* A parser that takes the last segment for the record key.
parseATURI_lastsegment(uri) ==
    IF ~ HasPrefix(uri, << "at://" >>)
    THEN [authority |-> << >>, collection |-> << >>, rkey |-> << >>,
          err |-> "URI must start with at://"]
    ELSE LET parts == Split(TrimPrefix(uri, << "at://" >>))
         IN  [authority  |-> parts[1],
              collection |-> IF Len(parts) > 1 THEN parts[2] ELSE << >>,
              rkey       |-> IF Len(parts) > 2 THEN parts[Len(parts)] ELSE << >>,
              err        |-> NoErr]

\* A parser that does not look at the scheme.
parseATURI_noscheme(uri) ==
    LET parts == Split(TrimPrefix(uri, << "at://" >>))
    IN  [authority  |-> parts[1],
         collection |-> IF Len(parts) > 1 THEN parts[2] ELSE << >>,
         rkey       |-> IF Len(parts) > 2 THEN parts[3] ELSE << >>,
         err        |-> NoErr]

parseATURI(uri) ==
    IF ~ HasPrefix(uri, << "at://" >>)
    THEN [authority |-> << >>, collection |-> << >>, rkey |-> << >>,
          err |-> "URI must start with at://"]
    ELSE LET path  == TrimPrefix(uri, << "at://" >>)
             parts == Split(path)
         IN  IF Len(parts) < 1
             THEN [authority |-> << >>, collection |-> << >>, rkey |-> << >>,
                   err |-> "missing authority"]
             ELSE [authority  |-> parts[1],
                   collection |-> IF Len(parts) > 1 THEN parts[2] ELSE << >>,
                   rkey       |-> IF Len(parts) > 2 THEN parts[3] ELSE << >>,
                   err        |-> NoErr]

----------------------------------------------------------------------------
(* Byte slices: a Go []byte / json.RawMessage is nil or holds bytes *)

NilBytes == [nil |-> TRUE, b |-> << >>]

Bytes(b) == [nil |-> FALSE, b |-> b]

\* json.RawMessage(`{}`), the two-byte payload of a failed URI.
EmptyObject == Bytes(<< "{", "}" >>)

\* Whether the bytes are one JSON value (what encoding/json's scanner
\* accepts): here an object, braces around members and insignificant spaces.
ValidJSON(b) == Len(b) >= 2 /\ b[1] = "{" /\ b[Len(b)] = "}"

\* encoding/json compact: insignificant white space is dropped.
RECURSIVE Compact(_)
Compact(b) ==
    IF b = << >> THEN << >>
    ELSE IF Head(b) \in WhiteSpace THEN Compact(Tail(b))
    ELSE << Head(b) >> \o Compact(Tail(b))

----------------------------------------------------------------------------
(* The environment: what the remote hosts may answer *)

PDSType == "AtprotoPersonalDataServer"

PDSSuffix == << "#atproto_pds" >>

Service(id, type, endpoint) == [ID |-> id, Type |-> type, ServiceEndpoint |-> endpoint]

\* DID documents a directory may serve for a DID; it has none for a DID
\* without an identifier.
DIDDocuments(did) ==
    IF Len(did) < 3 THEN {} ELSE
    { \* no PDS service at all
      [ID |-> did, Service |-> << Service(<< "#other" >>, "Other", << "https://", "x" >>) >>],
      \* no service list
      [ID |-> did, Service |-> << >>],
      \* one PDS service, by type, endpoint with a trailing slash
      [ID |-> did, Service |-> << Service(<< "#pds" >>, PDSType, << "https://", "p", "/" >>) >>],
      \* a PDS service by id suffix before one by type
      [ID |-> did, Service |-> << Service(<< "#other" >>, "Other", << "https://", "x" >>),
                                  Service(did \o PDSSuffix, "Other", << "https://", "p" >>),
                                  Service(<< "#pds" >>, PDSType, << "https://", "q" >>) >>],
      \* a PDS service whose endpoint is the empty string
      [ID |-> did, Service |-> << Service(<< "#pds" >>, PDSType, << >>) >>] }

TransportErr == "transport error"

\* The outcome of one http.Get as the callers see it: err from http.Get,
\* the status code, whether reading the body fails, and the body.
HTTPResponse(err, status, readErr, body) ==
    [err |-> err, status |-> status, readErr |-> readErr, body |-> body]

HTTPFailure == HTTPResponse(TransportErr, 0, FALSE, << >>)

\* Bodies a handle's host may serve at /.well-known/atproto-did: a DID
\* between white space, a DID of another method, nothing, an HTML page, a
\* method prefix with no identifier after it.
HandleBodies ==
    { << " " >> \o DidWebW \o << "\n" >>, DidKeyK, << >>, << "<html>" >>,
      << "did:", "plc:" >> }

\* http.Get fails before any connection when the URL has no host.
HandleResponses(handle) ==
    IF handle = << >>
    THEN { HTTPFailure }
    ELSE { HTTPFailure,
           HTTPResponse(NoErr, 404, FALSE, << "<html>" >>),
           HTTPResponse(NoErr, 200, TRUE, << >>) }
         \cup { HTTPResponse(NoErr, 200, FALSE, b) : b \in HandleBodies }

\* A DID-document response: the body is a document that decodes, or bytes
\* that do not (doc is then absent and decodeErr set).
DIDResponse(err, status, decodeErr, doc) ==
    [err |-> err, status |-> status, decodeErr |-> decodeErr, doc |-> doc]

NoDoc == [ID |-> << >>, Service |-> << >>]

DIDResponses(did) ==
    { DIDResponse(TransportErr, 0, FALSE, NoDoc),
      DIDResponse(NoErr, 404, FALSE, NoDoc),
      DIDResponse(NoErr, 200, TRUE, NoDoc) }
    \cup { DIDResponse(NoErr, 200, FALSE, d) : d \in DIDDocuments(did) }

\* The body of an XRPC error response, served with a status other than 200.
XRPCErrorBody == << "{", "error", "}" >>

\* Bodies a PDS may serve for an XRPC request: a JSON object (naming the
\* request it answers), an HTML error page, nothing, an XRPC error object.
XRPCBodies(url) ==
    { << "{" >> \o url \o << "}" >>,
      << "<html>" >>,
      << >>,
      XRPCErrorBody }

XRPCStatuses == {200, 400}

\* The bodies that go with a status: the error object only with an error
\* status, the answer to the request only with 200.
XRPCBodiesWith(url, status) ==
    IF status = 200
    THEN XRPCBodies(url) \ { XRPCErrorBody }
    ELSE { XRPCErrorBody, << "<html>" >> }

XRPCResponses(url) ==
    { HTTPFailure, HTTPResponse(NoErr, 200, TRUE, << >>) }
    \cup UNION { { HTTPResponse(NoErr, st, FALSE, b) : b \in XRPCBodiesWith(url, st) } :
                    st \in XRPCStatuses }

----------------------------------------------------------------------------
(* Request URLs *)

HandleURL(handle) == << "https://" >> \o handle \o << "/.well-known/atproto-did" >>

PlcURL(did) == << "https://plc.directory/" >> \o did

WebURL(did) ==
    << "https://" >> \o TrimPrefix(did, << "did:", "web:" >>) \o << "/.well-known/did.json" >>

describeRepoURL(pdsEndpoint, did) ==
    TrimSuffix(pdsEndpoint, << "/" >>)
        \o << "/xrpc/com.atproto.repo.describeRepo?repo=" >> \o QueryEscape(did)

listRecordsURL(pdsEndpoint, did, collection) ==
    TrimSuffix(pdsEndpoint, << "/" >>)
        \o << "/xrpc/com.atproto.repo.listRecords?repo=" >> \o QueryEscape(did)
        \o << "&collection=" >> \o QueryEscape(collection)

getRecordURL(pdsEndpoint, did, collection, rkey) ==
    TrimSuffix(pdsEndpoint, << "/" >>)
        \o << "/xrpc/com.atproto.repo.getRecord?repo=" >> \o QueryEscape(did)
        \o << "&collection=" >> \o QueryEscape(collection)
        \o << "&rkey=" >> \o QueryEscape(rkey)

(* extractPDSEndpoint *)

\* An extraction that knows the PDS by its type only.
RECURSIVE extractPDSEndpoint_typeonly(_)
extractPDSEndpoint_typeonly(services) ==
    IF services = << >> THEN << >>
    ELSE IF Head(services).Type = PDSType
         THEN Head(services).ServiceEndpoint
         ELSE extractPDSEndpoint_typeonly(Tail(services))

RECURSIVE extractPDSEndpoint(_)
extractPDSEndpoint(services) ==
    IF services = << >> THEN << >>
    ELSE LET service == Head(services)
         IN  IF service.Type = PDSType \/ HasSuffix(service.ID, PDSSuffix)
             THEN service.ServiceEndpoint
             ELSE extractPDSEndpoint(Tail(services))

----------------------------------------------------------------------------
(* State *)

VARIABLES
    hpc,        \* where handleResolve is: "idle", "launch", "wait", "done"
    query,      \* the request's query parameters
    uris,       \* handleResolve's uris
    next,       \* the index the launch loop is at (1-based)
    wg,         \* the WaitGroup counter
    results,    \* handleResolve's results slice
    task,       \* the goroutines, by launch order
    netLog,     \* the http.Get calls each goroutine has issued, in order
    response,   \* what has been written to the ResponseWriter
    cache,      \* a cache store: its name, capacity and entries, oldest use first
    used,       \* the keys the store was used with, oldest use first
    lastGet,    \* what the last get on the store returned
    didDoc,     \* a DID document handed to extractPDSEndpoint on its own
    extracted   \* what lines 310-313 made of that document

pipelineVars == << hpc, query, uris, next, wg, results, task, netLog, response >>

cacheVars == << cache, used, lastGet >>

extractVars == << didDoc, extracted >>

vars == << hpc, query, uris, next, wg, results, task, netLog, response,
           cache, used, lastGet, didDoc, extracted >>

Tasks == 1..MaxN

NoReturn == [data |-> NilBytes, err |-> NoErr]

\* A goroutine: pc is "none" (not launched), "start", "awaitHandle",
\* "awaitDID", "awaitXRPC" (inside the http.Get of that stage) or "done"
\* (result slot assigned and wg.Done run); idx and uri are the closure's
\* arguments, did is resolveATURI's did, ret is what resolveATURI returned.
NoTask == [pc |-> "none", idx |-> 0, uri |-> << >>, did |-> << >>, ret |-> NoReturn]

NoResponse == [kind |-> "none", status |-> 0, object |-> NilBytes, array |-> << >>]

\* src/main.go declares no cache store: none is constructed.
NoCache == [name |-> "none", capacity |-> 0, entries |-> << >>]

NoGet == [key |-> 0, found |-> FALSE, value |-> "none"]

\* No document is examined on its own while requests are served.
NoExtract == [called |-> FALSE, pdsEndpoint |-> << >>, err |-> NoErr]

PipelineInit ==
    /\ hpc = "idle"
    /\ query = [uris |-> << >>, uri |-> << >>]
    /\ uris = << >>
    /\ next = 1
    /\ wg = 0
    /\ results = << >>
    /\ task = [t \in Tasks |-> NoTask]
    /\ netLog = [t \in Tasks |-> << >>]
    /\ response = NoResponse

Init ==
    /\ PipelineInit
    /\ cache = NoCache
    /\ used = << >>
    /\ lastGet = NoGet
    /\ didDoc = NoDoc
    /\ extracted = NoExtract

----------------------------------------------------------------------------
(* handleResolve *)

\* uris := query["uris"], plus the legacy `uri` value when it is set.
CollectURIs(q) == IF q.uri # << >> THEN Append(q.uris, q.uri) ELSE q.uris

\* Lines 247-262: collect the URIs, reject an empty request, allocate the
\* results.
Receive(q) ==
    /\ hpc = "idle"
    /\ query' = q
    /\ uris' = CollectURIs(q)
    /\ IF Len(CollectURIs(q)) = 0
       THEN /\ response' = [NoResponse EXCEPT !.kind = "error", !.status = 400]
            /\ hpc' = "done"
            /\ UNCHANGED results
       ELSE /\ results' = [i \in 1..Len(CollectURIs(q)) |-> NilBytes]
            /\ hpc' = "launch"
            /\ UNCHANGED response
    /\ UNCHANGED << next, wg, task, netLog, cacheVars, extractVars >>

\* Lines 264-275: one iteration of the loop, wg.Add(1) and the go statement.
Launch ==
    /\ hpc = "launch"
    /\ wg' = wg + 1
    /\ task' = [task EXCEPT ![next] = [NoTask EXCEPT !.pc = "start",
                                                     !.idx = next,
                                                     !.uri = uris[next]]]
    /\ next' = next + 1
    /\ hpc' = IF next = Len(uris) THEN "wait" ELSE "launch"
    /\ UNCHANGED << query, uris, results, netLog, response, cacheVars, extractVars >>

\* A handler that does not wait for its goroutines.
WaitReturns_nowait == TRUE

\* Line 277: wg.Wait() returns when the counter is zero.
WaitReturns == wg = 0

\* json.NewEncoder(w).Encode(results): the elements are compacted into one
\* array; a nil element is null; if an element is not JSON, the encoder
\* fails and writes nothing.
Encode(rs) ==
    IF \A i \in 1..Len(rs) : rs[i].nil \/ ValidJSON(rs[i].b)
    THEN [NoResponse EXCEPT !.kind = "array", !.status = 200,
             !.array = [i \in 1..Len(rs) |->
                           IF rs[i].nil THEN << "null" >> ELSE Compact(rs[i].b)]]
    ELSE [NoResponse EXCEPT !.kind = "empty", !.status = 200]

\* Lines 277-288: the barrier, then the response.
Respond ==
    /\ hpc = "wait"
    /\ WaitReturns
    /\ response' = IF Len(uris) = 1 /\ query.uri # << >>
                   THEN [NoResponse EXCEPT !.kind = "object", !.status = 200,
                                           !.object = results[1]]
                   ELSE Encode(results)
    /\ hpc' = "done"
    /\ UNCHANGED << query, uris, next, wg, results, task, netLog, cacheVars, extractVars >>

----------------------------------------------------------------------------
(* The goroutine of lines 266-274 and resolveATURI *)

\* Goroutines that all assign the first slot.
WriteIndex_first(t) == 1

\* A closure that reads the loop's index when it runs, not its own argument.
WriteIndex_shared(t) == IF next <= Len(uris) THEN next ELSE Len(uris)

\* The slot the goroutine assigns: its idx argument.
WriteIndex(t) == task[t].idx

\* A goroutine that stores whatever resolveATURI returned.
ResultOf_nosentinel(data, err) == data

\* Lines 269-273: the sentinel on an error, the data otherwise.
ResultOf(data, err) == IF err # NoErr THEN EmptyObject ELSE data

\* A goroutine that assigns its slot but never runs wg.Done().
Return_nodone(t, data, err) ==
    /\ results' = [results EXCEPT ![WriteIndex(t)] = ResultOf(data, err)]
    /\ task' = [task EXCEPT ![t].pc = "done",
                            ![t].did = << >>,
                            ![t].ret = [data |-> data, err |-> err]]
    /\ UNCHANGED << netLog, wg >>

\* resolveATURI returns (data, err); the goroutine assigns its slot and
\* runs the deferred wg.Done().  Nothing the goroutine shares is touched
\* between the two, so they are one step.
Return(t, data, err) ==
    /\ results' = [results EXCEPT ![WriteIndex(t)] = ResultOf(data, err)]
    /\ task' = [task EXCEPT ![t].pc = "done",
                            ![t].did = << >>,
                            ![t].ret = [data |-> data, err |-> err]]
    /\ wg' = wg - 1
    /\ UNCHANGED netLog

\* The goroutine enters http.Get(url).
Get(t, kind, url, did) ==
    /\ netLog' = [netLog EXCEPT ![t] = Append(@, [kind |-> kind, url |-> url])]
    /\ task' = [task EXCEPT ![t].pc = IF kind = "handle" THEN "awaitHandle"
                                      ELSE IF kind = "did" THEN "awaitDID"
                                      ELSE "awaitXRPC",
                            ![t].did = did]
    /\ UNCHANGED << results, wg >>

\* The request the goroutine is waiting on.
Pending(t) == netLog[t][Len(netLog[t])]

\* A dispatch that sends every method but did:web to the PLC directory.
resolveDID_anymethod(t, did) ==
    IF HasPrefix(did, << "did:", "web:" >>)
    THEN Get(t, "did", WebURL(did), did)
    ELSE Get(t, "did", PlcURL(did), did)

\* resolveDID, lines 359-371: the method dispatch and the http.Get.
resolveDID(t, did) ==
    IF HasPrefix(did, << "did:", "plc:" >>)
    THEN Get(t, "did", PlcURL(did), did)
    ELSE IF HasPrefix(did, << "did:", "web:" >>)
    THEN Get(t, "did", WebURL(did), did)
    ELSE Return(t, NilBytes, "unsupported DID method")

\* Lines 292-305: parse, then the handle lookup or the DID lookup.
Resolve(t) ==
    /\ task[t].pc = "start"
    /\ LET p == parseATURI(task[t].uri)
       IN  IF p.err # NoErr
           THEN Return(t, NilBytes, "invalid AT-URI")
           ELSE IF ~ HasPrefix(p.authority, << "did:" >>)
           THEN Get(t, "handle", HandleURL(p.authority), << >>)
           ELSE resolveDID(t, p.authority)
    /\ UNCHANGED << hpc, query, uris, next, response, cacheVars, extractVars >>

\* A handle lookup that is tried a second time when it fails.
resolveHandle_retry(t) ==
    /\ task[t].pc = "awaitHandle"
    /\ \E resp \in HandleResponses(parseATURI(task[t].uri).authority) :
          IF resp.err = NoErr /\ resp.status = 200 /\ ~ resp.readErr
          THEN resolveDID(t, TrimSpace(resp.body))
          ELSE IF Len(netLog[t]) < 2
          THEN Get(t, "handle", Pending(t).url, << >>)
          ELSE Return(t, NilBytes, "failed to resolve handle")
    /\ UNCHANGED << hpc, query, uris, next, response, cacheVars, extractVars >>

\* resolveHandle, lines 347-356, and the DID lookup that follows.
resolveHandle(t) ==
    /\ task[t].pc = "awaitHandle"
    /\ \E resp \in HandleResponses(parseATURI(task[t].uri).authority) :
          IF resp.err = NoErr /\ resp.status = 200 /\ ~ resp.readErr
          THEN resolveDID(t, TrimSpace(resp.body))
          ELSE Return(t, NilBytes, "failed to resolve handle")
    /\ UNCHANGED << hpc, query, uris, next, response, cacheVars, extractVars >>

\* A dispatch that tests the record key first.
XRPCOperation_rkeyfirst(collection, rkey) ==
    IF rkey = << >> THEN "describeRepo"
    ELSE IF collection = << >> THEN "listRecords"
    ELSE "getRecord"

\* Lines 315-320: the XRPC operation for a parsed URI.
XRPCOperation(collection, rkey) ==
    IF collection = << >> THEN "describeRepo"
    ELSE IF rkey = << >> THEN "listRecords"
    ELSE "getRecord"

\* describeRepo, lines 399-404.
describeRepo(t, pdsEndpoint, did) ==
    Get(t, "describeRepo", describeRepoURL(pdsEndpoint, did), did)

\* A listRecords that answers from an earlier fetch of the same URL.
listRecords_cached(t, pdsEndpoint, did, collection) ==
    LET url == listRecordsURL(pdsEndpoint, did, collection)
    IN  IF \E s \in Tasks \ {t} : \E j \in 1..Len(netLog[s]) : netLog[s][j].url = url
        THEN Return(t, Bytes(<< "{" >> \o url \o << "}" >>), NoErr)
        ELSE Get(t, "listRecords", url, did)

\* listRecords, lines 413-419.
listRecords(t, pdsEndpoint, did, collection) ==
    Get(t, "listRecords", listRecordsURL(pdsEndpoint, did, collection), did)

\* getRecord, lines 428-435.
getRecord(t, pdsEndpoint, did, collection, rkey) ==
    Get(t, "getRecord", getRecordURL(pdsEndpoint, did, collection, rkey), did)

\* resolveDID, lines 372-386, then lines 310-320: the endpoint and the
\* XRPC call.
resolveDIDResponse(t) ==
    /\ task[t].pc = "awaitDID"
    /\ \E resp \in DIDResponses(task[t].did) :
          IF resp.err # NoErr \/ resp.status # 200 \/ resp.decodeErr
          THEN Return(t, NilBytes, "failed to resolve DID")
          ELSE LET pdsEndpoint == extractPDSEndpoint(resp.doc.Service)
                   p == parseATURI(task[t].uri)
                   op == XRPCOperation(p.collection, p.rkey)
               IN  IF pdsEndpoint = << >>
                   THEN Return(t, NilBytes, "no PDS endpoint found in DID document")
                   ELSE IF op = "describeRepo"
                   THEN describeRepo(t, pdsEndpoint, task[t].did)
                   ELSE IF op = "listRecords"
                   THEN listRecords(t, pdsEndpoint, task[t].did, p.collection)
                   ELSE getRecord(t, pdsEndpoint, task[t].did, p.collection, p.rkey)
    /\ UNCHANGED << hpc, query, uris, next, response, cacheVars, extractVars >>

\* An XRPC function that takes a status other than 200 for a failure.
XRPCResult_checkstatus(resp) ==
    IF resp.err # NoErr
    THEN [data |-> NilBytes, err |-> resp.err]
    ELSE IF resp.status # 200
    THEN [data |-> NilBytes, err |-> "unexpected status"]
    ELSE IF resp.readErr
    THEN [data |-> Bytes(resp.body), err |-> "read error"]
    ELSE [data |-> Bytes(resp.body), err |-> NoErr]

\* What describeRepo / listRecords / getRecord return for a response: the
\* error of http.Get, or what io.ReadAll(resp.Body) returns; the status
\* code is not looked at.
XRPCResult(resp) ==
    IF resp.err # NoErr
    THEN [data |-> NilBytes, err |-> resp.err]
    ELSE IF resp.readErr
    THEN [data |-> Bytes(resp.body), err |-> "read error"]
    ELSE [data |-> Bytes(resp.body), err |-> NoErr]

\* describeRepo / listRecords / getRecord after the http.Get, and the
\* goroutine's assignment of what they return.
xrpcResponse(t) ==
    /\ task[t].pc = "awaitXRPC"
    /\ \E resp \in XRPCResponses(Pending(t).url) :
          Return(t, XRPCResult(resp).data, XRPCResult(resp).err)
    /\ UNCHANGED << hpc, query, uris, next, response, cacheVars, extractVars >>

Next ==
    \/ hpc = "idle" /\ \E q \in Queries : Receive(q)
    \/ Launch
    \/ Respond
    \/ \E t \in Tasks : Resolve(t)
    \/ \E t \in Tasks : resolveHandle(t)
    \/ \E t \in Tasks : resolveDIDResponse(t)
    \/ \E t \in Tasks : xrpcResponse(t)

Spec == Init /\ [][Next]_vars

\* The requests of the fair specification: a URI that goes through every
\* stage and one that fails at the parse.
LivePool ==
    { << "at://", "h", "/", "c", "/", "r" >>,
      DidPlcA \o << "/", "c", "/", "r" >> }

LiveQueries == { q \in Queries : \A i \in 1..Len(q.uris) : q.uris[i] \in LivePool }

LiveNext ==
    \/ hpc = "idle" /\ \E q \in LiveQueries : Receive(q)
    \/ Launch
    \/ Respond
    \/ \E t \in Tasks : Resolve(t)
    \/ \E t \in Tasks : resolveHandle(t)
    \/ \E t \in Tasks : resolveDIDResponse(t)
    \/ \E t \in Tasks : xrpcResponse(t)

\* The Go scheduler runs every runnable goroutine: the handler's loop and
\* its return from wg.Wait(), and each goroutine's own code.  That every
\* http.Get returns is the hypothesis under which termination is claimed.
\* Nothing obliges a client to send a request.
Fairness ==
    /\ WF_vars(Launch)
    /\ WF_vars(Respond)
    /\ \A t \in Tasks :
          /\ WF_vars(Resolve(t))
          /\ WF_vars(resolveHandle(t))
          /\ WF_vars(resolveDIDResponse(t))
          /\ WF_vars(xrpcResponse(t))

SpecFair == Init /\ [][LiveNext]_vars /\ Fairness

----------------------------------------------------------------------------
(* Vocabulary of the properties *)

Launched == { t \in Tasks : task[t].pc # "none" }

Finished == { t \in Tasks : task[t].pc = "done" }

Failed == { t \in Finished : task[t].ret.err # NoErr }

XRPCKinds == {"describeRepo", "listRecords", "getRecord"}

\* The XRPC calls a goroutine has issued.
XRPCCalls(t) == SelectSeq(netLog[t], LAMBDA c : c.kind \in XRPCKinds)

\* What parseATURI returns for each URI of the pool.
ParseOf == [u \in URIPool |-> parseATURI(u)]

Parsed(t) == ParseOf[task[t].uri]

\* The handler has written a response for a request with URIs.
Answered == response.kind \in {"object", "array", "empty"}

----------------------------------------------------------------------------
\* C1: for a batch of N >= 1 URIs and any completion order of the tasks,
\* results has length N, and slot i holds the outcome of the task launched
\* for input i: the sentinel if that task's resolveATURI failed, else the
\* body served for that task's own XRPC request.
OrderPreserved ==
    /\ hpc \in {"launch", "wait", "done"} /\ Len(uris) >= 1 => Len(results) = Len(uris)
    /\ \A i \in Finished :
          /\ i <= Len(uris)
          /\ task[i].uri = uris[i]
          /\ results[i] = IF task[i].ret.err # NoErr THEN EmptyObject ELSE task[i].ret.data
          /\ task[i].ret.err = NoErr =>
                /\ XRPCCalls(i) # << >>
                /\ task[i].ret.data.b \in XRPCBodies(Pending(i).url)
    /\ Answered => Finished = 1..Len(uris)

\* C1 witness: a finished batch of two whose first input failed and whose
\* second input resolved to a record.
OrderPreservedWitness ==
    /\ hpc = "done"
    /\ Len(uris) >= 2
    /\ results[1] = EmptyObject
    /\ results[2] # EmptyObject
    /\ ValidJSON(results[2].b)

XRPCFailureYieldsSentinel ==
    /\ \A i \in Finished : results[i] = EmptyObject \/ ValidJSON(results[i].b)
    /\ Answered /\ ~ (Len(uris) = 1 /\ query.uri # << >>) => response.kind = "array"

\* C4: nothing of the response is written before every task of the request
\* has assigned its slot and finished.
FullBarrier ==
    response.kind # "none" =>
        \A i \in 1..Len(uris) : task[i].pc = "done" /\ ~ results[i].nil

\* C4 witness: a batch of two answered with its array.
FullBarrierWitness == response.kind = "array" /\ Len(uris) >= 2

\* C5: a URI that reaches the XRPC stage issues exactly one XRPC call:
\* describeRepo for an authority alone, listRecords for authority and
\* collection, getRecord for authority, collection and record key.
OneXRPCByShape ==
    \A t \in Launched :
        LET calls == XRPCCalls(t)
            p == Parsed(t)
        IN  /\ Len(calls) <= 1
            /\ task[t].pc = "awaitXRPC" => Len(calls) = 1
            /\ task[t].pc = "done" /\ task[t].ret.err = NoErr => Len(calls) = 1
            /\ Len(calls) = 1 =>
                  /\ calls[1] = Pending(t)
                  /\ p.collection = << >> /\ p.rkey = << >> => calls[1].kind = "describeRepo"
                  /\ p.collection # << >> /\ p.rkey = << >> => calls[1].kind = "listRecords"
                  /\ p.collection # << >> /\ p.rkey # << >> => calls[1].kind = "getRecord"

\* C5 witness: one request whose tasks issued a listRecords and a getRecord.
OneXRPCByShapeWitness ==
    /\ \E t \in Launched : Len(XRPCCalls(t)) = 1 /\ XRPCCalls(t)[1].kind = "listRecords"
    /\ \E t \in Launched : Len(XRPCCalls(t)) = 1 /\ XRPCCalls(t)[1].kind = "getRecord"

\* The kinds of call the documentation says are answered from a cache.
CachedKinds == {"did", "describeRepo", "getRecord"}

\* Task s has fetched call c and got an answer a cache would keep: a DID
\* document that decoded (the task went on to the endpoint), or an XRPC body.
FetchedBy(s, c) ==
    \E j \in 1..Len(netLog[s]) :
        /\ netLog[s][j] = c
        /\ \/ j < Len(netLog[s])
           \/ task[s].pc = "done" /\ task[s].ret.err = NoErr
           \/ task[s].pc = "done" /\ task[s].ret.err = "no PDS endpoint found in DID document"

\* C6 (as claimed): once a DID document, a describeRepo or a getRecord
\* response has been fetched, a later resolution of the same URI (every step
\* of one request falls inside the shortest TTL) issues no second network
\* call for it, and two resolutions of one URL return identical payloads.
IdempotentWithinTTL ==
    [][ \A t \in Tasks :
          /\ Len(netLog'[t]) = Len(netLog[t]) + 1 =>
                LET c == netLog'[t][Len(netLog'[t])]
                IN  c.kind \in CachedKinds => ~ \E s \in Tasks : FetchedBy(s, c)
          /\ \A s \in Tasks :
                /\ task'[s].pc = "done" /\ task'[t].pc = "done"
                /\ task'[s].ret.err = NoErr /\ task'[t].ret.err = NoErr
                /\ netLog'[s][Len(netLog'[s])] = netLog'[t][Len(netLog'[t])]
                /\ netLog'[t][Len(netLog'[t])].kind \in CachedKinds
                => task'[s].ret.data = task'[t].ret.data
      ]_vars

\* A task is at or past the XRPC stage: its DID document decoded and named
\* a PDS endpoint.
AtXRPCStage(t) ==
    \/ task[t].pc = "awaitXRPC"
    \/ task[t].pc = "done" /\ task[t].ret.err \in {NoErr, TransportErr, "read error"}
                           /\ Len(netLog[t]) >= 1
                           /\ (Pending(t).kind \in XRPCKinds
                               \/ (Pending(t).kind = "did" /\ task[t].ret.err = NoErr))

\* C7: listRecords is never answered from a cache: every resolution of a
\* collection-level URI that reaches the XRPC stage issues its own
\* listRecords call, however often the same URL was fetched before.
ListRecordsAlwaysFresh ==
    \A t \in Launched :
        Parsed(t).collection # << >> /\ Parsed(t).rkey = << >> /\ AtXRPCStage(t) =>
            /\ Pending(t).kind = "listRecords"
            /\ Len(XRPCCalls(t)) = 1

\* C7 witness: the same listRecords URL fetched by one task to the end and
\* then requested again by another.
ListRecordsAlwaysFreshWitness ==
    \E s \in Finished : \E t \in Launched \ {s} :
        /\ task[s].ret.err = NoErr
        /\ Pending(s).kind = "listRecords"
        /\ Len(netLog[t]) >= 1
        /\ Pending(t) = Pending(s)

\* C9 (as claimed): parsing a URI without an authority fails, so no parsed
\* URI has an empty authority and no lookup is issued for one.
AuthorityRequired ==
    \A t \in Launched :
        /\ task[t].pc # "start" /\ Parsed(t).err = NoErr => Parsed(t).authority # << >>
        /\ \A j \in 1..Len(netLog[t]) : netLog[t][j].url # HandleURL(<< >>)

\* C10 (as claimed): a parsed URI with a record key has a collection, and a
\* URI that carries a record key is never sent to describeRepo or
\* listRecords.
RkeyImpliesCollection ==
    \A t \in Launched :
        /\ task[t].pc # "start" /\ Parsed(t).err = NoErr /\ Parsed(t).rkey # << >>
              => Parsed(t).collection # << >>
        /\ \A j \in 1..Len(netLog[t]) :
              netLog[t][j].kind \in {"describeRepo", "listRecords"} => Parsed(t).rkey = << >>

----------------------------------------------------------------------------
(* The cache store of spec section 4.2.  src/main.go holds no such store;   *)
(* it is modelled from the specification and the README, on its own: one   *)
(* generic store, instantiated once per cache with that cache's capacity.  *)
(* get and put are serialized by the store, so each is one step.           *)

CacheValues == {"v1", "v2"}

\* One more key than the store can hold.
CacheKeys(c) == 1..(c.capacity + 1)

\* The two instances: the DID cache and the XRPC response cache.
NewCache(name) ==
    [name |-> name,
     capacity |-> IF name = "did" THEN DIDCacheSize ELSE XRPCCacheSize,
     entries |-> << >>]

KeysOf(entries) == { entries[i].key : i \in 1..Len(entries) }

Without(entries, key) == SelectSeq(entries, LAMBDA e : e.key # key)

EntryOf(entries, key) == CHOOSE e \in { entries[i] : i \in 1..Len(entries) } : e.key = key

\* A get that reads the entry without recording the use.
CacheGet_nouse(key) ==
    /\ cache.name # "none"
    /\ IF key \in KeysOf(cache.entries) /\ EntryOf(cache.entries, key).live
       THEN /\ lastGet' = [key |-> key, found |-> TRUE,
                           value |-> EntryOf(cache.entries, key).value]
            /\ used' = SelectSeq(used, LAMBDA k : k # key) \o << key >>
            /\ UNCHANGED cache
       ELSE /\ lastGet' = [key |-> key, found |-> FALSE, value |-> "none"]
            /\ UNCHANGED << cache, used >>
    /\ UNCHANGED << pipelineVars, extractVars >>

\* get(key) -> (value, found): a live entry is a hit and becomes the most
\* recently used; an absent or expired entry is a miss and nothing changes.
CacheGet(key) ==
    /\ cache.name # "none"
    /\ IF key \in KeysOf(cache.entries) /\ EntryOf(cache.entries, key).live
       THEN /\ lastGet' = [key |-> key, found |-> TRUE,
                           value |-> EntryOf(cache.entries, key).value]
            /\ cache' = [cache EXCEPT !.entries =
                            Append(Without(@, key), EntryOf(cache.entries, key))]
            /\ used' = SelectSeq(used, LAMBDA k : k # key) \o << key >>
       ELSE /\ lastGet' = [key |-> key, found |-> FALSE, value |-> "none"]
            /\ UNCHANGED << cache, used >>
    /\ UNCHANGED << pipelineVars, extractVars >>

\* A put that never evicts.
CachePut_unbounded(key, value, ttl) ==
    /\ cache.name # "none"
    /\ IF ttl = 0
       THEN UNCHANGED << cache, used >>
       ELSE /\ cache' = [cache EXCEPT !.entries =
                            Append(Without(@, key),
                                   [key |-> key, value |-> value, live |-> TRUE])]
            /\ used' = SelectSeq(used, LAMBDA k : k # key) \o << key >>
    /\ UNCHANGED << lastGet, pipelineVars, extractVars >>

\* put(key, value, ttl): nothing for ttl zero; otherwise the entry is
\* stored (replacing the key's old entry) as the most recently used, and
\* the least recently used entry is evicted when the capacity is exceeded.
CachePut(key, value, ttl) ==
    /\ cache.name # "none"
    /\ IF ttl = 0
       THEN UNCHANGED << cache, used >>
       ELSE LET stored == Append(Without(cache.entries, key),
                                 [key |-> key, value |-> value, live |-> TRUE])
            IN  /\ cache' = [cache EXCEPT !.entries =
                                IF Len(stored) > cache.capacity THEN Tail(stored) ELSE stored]
                /\ used' = SelectSeq(used, LAMBDA k : k # key) \o << key >>
    /\ UNCHANGED << lastGet, pipelineVars, extractVars >>

\* Time passes an entry's expiry: the entry stays in the store, expired.
CacheExpire(key) ==
    /\ key \in KeysOf(cache.entries)
    /\ EntryOf(cache.entries, key).live
    /\ cache' = [cache EXCEPT !.entries =
                    [i \in 1..Len(@) |-> IF @[i].key = key
                                         THEN [@[i] EXCEPT !.live = FALSE] ELSE @[i]]]
    /\ UNCHANGED << used, lastGet, pipelineVars, extractVars >>

\* One store is constructed, then used.
CacheInit ==
    /\ PipelineInit
    /\ cache \in { NewCache("did"), NewCache("xrpc") }
    /\ used = << >>
    /\ lastGet = NoGet
    /\ didDoc = NoDoc
    /\ extracted = NoExtract

CacheTTLs == {0, 2}

CacheNext ==
    \/ \E key \in CacheKeys(cache) : CacheGet(key)
    \/ \E key \in CacheKeys(cache), value \in CacheValues, ttl \in CacheTTLs :
          CachePut(key, value, ttl)
    \/ \E key \in CacheKeys(cache) : CacheExpire(key)

SpecCache == CacheInit /\ [][CacheNext]_vars

\* The position of a key in the order of last use.
UseRank(key) == CHOOSE i \in 1..Len(used) : used[i] = key

\* The stored key whose last use is the oldest.
LeastRecentlyUsed ==
    CHOOSE k \in KeysOf(cache.entries) :
        \A o \in KeysOf(cache.entries) : UseRank(k) <= UseRank(o)

\* C8: a cache store never holds more entries than its capacity; a put of a
\* new key into a full store evicts exactly the least recently used key
\* (get hits and puts both count as use); and a get on a key that is not
\* stored, such as the evicted one, misses.
CacheBoundLRU ==
    /\ [](/\ Len(cache.entries) <= cache.capacity
          /\ Cardinality(KeysOf(cache.entries)) = Len(cache.entries)
          /\ KeysOf(cache.entries) \subseteq { used[i] : i \in 1..Len(used) })
    /\ [][ /\ \A key \in KeysOf(cache'.entries) \ KeysOf(cache.entries) :
                Len(cache.entries) = cache.capacity =>
                   KeysOf(cache'.entries) =
                      (KeysOf(cache.entries) \ {LeastRecentlyUsed}) \cup {key}
           /\ lastGet' # lastGet /\ lastGet'.key \notin KeysOf(cache.entries)
                => ~ lastGet'.found
           /\ KeysOf(cache.entries) \ KeysOf(cache'.entries) # {} =>
                KeysOf(cache'.entries) \ KeysOf(cache.entries) # {}
         ]_vars

\* C8 witness: the XRPC store is full, its most recently stored key is not
\* the key used last before it (a get reordered the others), an earlier key
\* has been evicted, and a get on an evicted key has just missed.
CacheBoundLRUWitness ==
    /\ cache.name = "xrpc"
    /\ Len(cache.entries) = cache.capacity
    /\ Len(used) > cache.capacity
    /\ used[1] \notin KeysOf(cache.entries)
    /\ lastGet.key = used[1]
    /\ ~ lastGet.found
    /\ \E i \in 1..(Len(cache.entries) - 1) :
          cache.entries[i].key > cache.entries[i + 1].key

----------------------------------------------------------------------------
\* C11: an input that does not begin with at:// fails at the parse: its
\* task issues no http.Get of any kind, and its slot is `{}`.
SchemeRequired ==
    \A t \in Launched :
        ~ HasPrefix(task[t].uri, << "at://" >>) =>
            /\ netLog[t] = << >>
            /\ task[t].pc \in {"start", "done"}
            /\ task[t].pc = "done" =>
                  /\ task[t].ret.err = "invalid AT-URI"
                  /\ results[task[t].idx] = EmptyObject

\* C11 witness: a finished task whose input has no scheme, with `{}` in
\* its slot, beside a task that did go to the network.
SchemeRequiredWitness ==
    \E t \in Finished : \E s \in Launched :
        /\ ~ HasPrefix(task[t].uri, << "at://" >>)
        /\ results[t] = EmptyObject
        /\ netLog[s] # << >>

\* C12 (as claimed): a request with one URI in the legacy `uri` parameter
\* is answered with that URI's result itself, not wrapped; a request with
\* `uris` values is answered with an array that holds one element per URI,
\* the results of the `uris` values first and in the order given.
ResponseShape ==
    hpc = "done" /\ Len(uris) >= 1 =>
        /\ query.uris = << >> =>
              /\ response.kind = "object"
              /\ response.object = results[1]
        /\ query.uris # << >> =>
              /\ response.kind = "array"
              /\ Len(response.array) = Len(uris)
              /\ \A i \in 1..Len(query.uris) :
                    /\ task[i].uri = query.uris[i]
                    /\ response.array[i] = Compact(results[i].b)

\* The stage of a call: handle lookup, DID-document lookup, XRPC.
StageOf(kind) == IF kind = "handle" THEN 1 ELSE IF kind = "did" THEN 2 ELSE 3

\* The stage of the last call a task issued (0 when it issued none).
LastStage(t) == IF netLog[t] = << >> THEN 0 ELSE StageOf(Pending(t).kind)

\* C13: a task's calls are issued in the order handle lookup, DID-document
\* lookup, XRPC call, each stage at most once (no retry), the task waits on
\* the call it issued last, and a task that failed issued nothing after the
\* stage that failed.
StagesInOrder ==
    \A t \in Launched :
        /\ \A i, j \in 1..Len(netLog[t]) :
              i < j => StageOf(netLog[t][i].kind) < StageOf(netLog[t][j].kind)
        /\ task[t].pc = "start" => netLog[t] = << >>
        /\ task[t].pc = "awaitHandle" => LastStage(t) = 1
        /\ task[t].pc = "awaitDID" => LastStage(t) = 2
        /\ task[t].pc = "awaitXRPC" => LastStage(t) = 3
        /\ task[t].pc = "done" =>
              LET err == task[t].ret.err
              IN  /\ err = "invalid AT-URI" => LastStage(t) = 0
                  /\ err = "failed to resolve handle" => LastStage(t) = 1
                  /\ err = "unsupported DID method" => LastStage(t) \in {0, 1}
                  /\ err = "failed to resolve DID" => LastStage(t) = 2
                  /\ err = "no PDS endpoint found in DID document" => LastStage(t) = 2
                  /\ err \in {NoErr, TransportErr, "read error"} => LastStage(t) = 3

\* C13 witness: one request in which a task went through all three stages
\* and another failed at its DID-document lookup and stopped there.
StagesInOrderWitness ==
    \E s \in Finished : \E t \in Finished :
        /\ Len(netLog[s]) = 3
        /\ task[s].ret.err = NoErr
        /\ task[t].ret.err = "failed to resolve DID"
        /\ LastStage(t) = 2

\* A DID: the scheme, a method and an identifier that is not empty.
IsDID(d) == Len(d) >= 3 /\ d[1] = "did:" /\ d[2] \in {"plc:", "web:", "key:"}

\* The handle lookups a task has issued.
HandleCalls(t) == SelectSeq(netLog[t], LAMBDA c : c.kind = "handle")

\* C14 (as claimed): a handle lookup is issued exactly when the authority
\* does not begin with did:, and once; when the lookup ends in a transport
\* failure, a status other than 200 or a body that is not a DID, the task
\* fails with `{}` and goes on to no DID-document or XRPC call, so a task
\* that went on from a handle lookup holds a DID.
HandleLookupGate ==
    \A t \in Launched :
        /\ task[t].pc # "start" /\ Parsed(t).err = NoErr =>
              Len(HandleCalls(t)) =
                  IF HasPrefix(Parsed(t).authority, << "did:" >>) THEN 0 ELSE 1
        /\ Parsed(t).err # NoErr => HandleCalls(t) = << >>
        /\ task[t].pc = "done" /\ task[t].ret.err = "failed to resolve handle" =>
              /\ results[task[t].idx] = EmptyObject
              /\ Len(netLog[t]) = 1
        /\ task[t].pc = "awaitDID" /\ HandleCalls(t) # << >> => IsDID(task[t].did)

\* The DID-document lookups a task has issued.
DIDCalls(t) == SelectSeq(netLog[t], LAMBDA c : c.kind = "did")

\* C15: a did:plc DID is looked up at the PLC directory, a did:web DID at
\* its domain's /.well-known/did.json, and a DID of any other method,
\* whether it came as the authority or from the handle lookup, fails the
\* task with `{}` and no DID-document or XRPC call.
MethodDispatch ==
    \A t \in Launched :
        /\ task[t].pc = "awaitDID" =>
              LET did == task[t].did
              IN  \/ /\ HasPrefix(did, << "did:", "plc:" >>)
                     /\ Pending(t).url = << "https://plc.directory/" >> \o did
                  \/ /\ HasPrefix(did, << "did:", "web:" >>)
                     /\ Pending(t).url = << "https://" >> \o SubSeq(did, 3, Len(did))
                                            \o << "/.well-known/did.json" >>
        /\ \A j \in 1..Len(netLog[t]) :
              netLog[t][j].kind = "did" =>
                  LET url == netLog[t][j].url
                  IN  \/ HasPrefix(url, << "https://plc.directory/", "did:", "plc:" >>)
                      \/ /\ url[1] = "https://"
                         /\ url[Len(url)] = "/.well-known/did.json"
        /\ /\ task[t].pc # "start"
           /\ Parsed(t).err = NoErr
           /\ HasPrefix(Parsed(t).authority, << "did:" >>)
           /\ ~ HasPrefix(Parsed(t).authority, << "did:", "plc:" >>)
           /\ ~ HasPrefix(Parsed(t).authority, << "did:", "web:" >>)
           => /\ task[t].pc = "done"
              /\ task[t].ret.err = "unsupported DID method"
              /\ netLog[t] = << >>
        /\ task[t].pc = "done" /\ task[t].ret.err = "unsupported DID method" =>
              /\ results[task[t].idx] = EmptyObject
              /\ DIDCalls(t) = << >>
              /\ XRPCCalls(t) = << >>

\* C15 witness: one request in which a did:key authority failed without a
\* call, and a handle whose lookup returned a did:key failed after that
\* lookup alone.
MethodDispatchWitness ==
    \E s \in Finished : \E t \in Finished :
        /\ Parsed(s).authority = DidKeyK
        /\ task[s].ret.err = "unsupported DID method"
        /\ netLog[s] = << >>
        /\ task[t].ret.err = "unsupported DID method"
        /\ Len(netLog[t]) = 1
        /\ Pending(t).kind = "handle"

----------------------------------------------------------------------------
(* extractPDSEndpoint on its own: lines 310-313 of resolveATURI applied to *)
(* any DID document with a short service list.                              *)

\* Longest service list of a document.
MaxServices == 3

\* Service entries: one that is no PDS, a PDS by id suffix, a PDS by type,
\* a PDS by type that names no endpoint.
ServicePool ==
    { Service(<< "#other" >>, "Other", << "https://", "x" >>),
      Service(DidPlcA \o PDSSuffix, "Other", << "https://", "p" >>),
      Service(<< "#pds" >>, PDSType, << "https://", "q" >>),
      Service(<< "#pds" >>, PDSType, << >>) }

ExtractInit ==
    /\ PipelineInit
    /\ cache = NoCache
    /\ used = << >>
    /\ lastGet = NoGet
    /\ didDoc \in { [ID |-> DidPlcA, Service |-> ss] :
                      ss \in UNION { SeqOfLen(ServicePool, n) : n \in 0..MaxServices } }
    /\ extracted = NoExtract

\* Lines 310-313: pdsEndpoint := extractPDSEndpoint(didDoc), and the error
\* when it is empty.
Extract ==
    /\ ~ extracted.called
    /\ LET pdsEndpoint == extractPDSEndpoint(didDoc.Service)
       IN  extracted' = [called |-> TRUE,
                         pdsEndpoint |-> pdsEndpoint,
                         err |-> IF pdsEndpoint = << >>
                                 THEN "no PDS endpoint found in DID document"
                                 ELSE NoErr]
    /\ UNCHANGED << didDoc, pipelineVars, cacheVars >>

ExtractNext == Extract

SpecExtract == ExtractInit /\ [][ExtractNext]_vars

\* A service entry that names a PDS.
IsPDS(service) == service.Type = PDSType \/ HasSuffix(service.ID, PDSSuffix)

PDSEntries == { i \in 1..Len(didDoc.Service) : IsPDS(didDoc.Service[i]) }

\* The first PDS entry in document order.
FirstPDS ==
    didDoc.Service[CHOOSE i \in PDSEntries : \A j \in PDSEntries : i <= j]

\* C16 (as claimed): the endpoint is that of the first PDS entry; with at
\* least one PDS entry in the document the resolution goes on with that
\* endpoint, with none it fails.
PDSEntryProceeds ==
    extracted.called =>
        IF PDSEntries # {}
        THEN extracted.err = NoErr /\ extracted.pdsEndpoint = FirstPDS.ServiceEndpoint
        ELSE extracted.err # NoErr

\* C16 (amended): the endpoint is that of the first PDS entry in document
\* order (by type or by id suffix); the resolution goes on with it when
\* that endpoint is not empty, and fails when there is no PDS entry or the
\* first one's endpoint is empty.
FirstPDSEndpoint ==
    extracted.called =>
        /\ extracted.pdsEndpoint =
              IF PDSEntries # {} THEN FirstPDS.ServiceEndpoint ELSE << >>
        /\ extracted.err = NoErr <=>
              PDSEntries # {} /\ FirstPDS.ServiceEndpoint # << >>

\* C16 witness: a document whose first PDS entry, known by its id suffix,
\* comes after an entry that is no PDS and before a PDS entry by type with
\* another endpoint; the resolution goes on with the first one's endpoint.
FirstPDSEndpointWitness ==
    /\ extracted.called
    /\ Len(didDoc.Service) = 3
    /\ ~ IsPDS(didDoc.Service[1])
    /\ didDoc.Service[2].Type # PDSType /\ IsPDS(didDoc.Service[2])
    /\ didDoc.Service[3].Type = PDSType
    /\ didDoc.Service[3].ServiceEndpoint \notin { << >>, didDoc.Service[2].ServiceEndpoint }
    /\ extracted.err = NoErr
    /\ extracted.pdsEndpoint = didDoc.Service[2].ServiceEndpoint

\* C17: in every interleaving, a step that changes slot i is the return of
\* the task launched for input i, finds the slot unassigned and touches no
\* other slot and no other task; every task that returns assigns its slot;
\* so each slot is written exactly once, by its own task, and when the
\* barrier is passed every slot has been written.
IndexDisjoint ==
    /\ [][ hpc # "idle" =>
             /\ \A i \in 1..Len(results) :
                   results'[i] # results[i] =>
                       /\ results[i].nil
                       /\ task[i].idx = i
                       /\ task[i].pc \notin {"none", "done"}
                       /\ task'[i].pc = "done"
                       /\ \A j \in (1..Len(results)) \ {i} :
                             results'[j] = results[j] /\ task'[j] = task[j]
             /\ \A t \in Tasks :
                   task[t].pc # "done" /\ task'[t].pc = "done" =>
                       /\ results'[t] # results[t]
                       /\ ~ results'[t].nil
         ]_vars
    /\ [](hpc = "done" /\ Len(uris) >= 1 =>
             \A i \in 1..Len(uris) : ~ results[i].nil /\ task[i].idx = i)

\* C17 witness: of two tasks the second has returned before the first; its
\* slot holds the body it fetched and the first slot is still unassigned.
IndexDisjointWitness ==
    /\ hpc = "wait"
    /\ Len(uris) = 2
    /\ task[1].pc # "done" /\ results[1].nil
    /\ task[2].pc = "done" /\ ~ results[2].nil
    /\ task[2].ret.err = NoErr
    /\ results[2] = task[2].ret.data

\* A task is inside an http.Get that has not returned.
Awaiting(t) == task[t].pc \in {"awaitHandle", "awaitDID", "awaitXRPC"}

\* C18: when every http.Get returns and the goroutines are scheduled
\* fairly, every request received passes the barrier and is answered; and
\* as long as one call of one task has not returned the barrier is not
\* passed and nothing is written, so a call that never returns leaves the
\* whole batch without a response.
BatchTerminates ==
    /\ (hpc # "idle") ~> (hpc = "done" /\ response.kind # "none")
    /\ [](\A t \in Tasks : Awaiting(t) => hpc # "done" /\ response.kind = "none")

\* C18 witness: an answered batch of two, one task of which went through
\* the handle lookup, the DID-document lookup and the XRPC call.
BatchTerminatesWitness ==
    /\ hpc = "done"
    /\ Len(uris) = 2
    /\ Answered
    /\ \E t \in Finished : Len(netLog[t]) = 3
    /\ \A t \in Tasks : ~ Awaiting(t)

\* C19: a task whose XRPC call returned a response whose body could be read
\* holds that body as its result, unchanged, whatever the status was: it has
\* not failed, its slot is the served body, and it issued that one XRPC
\* call only.
XRPCPassThrough ==
    \A t \in Finished :
        XRPCCalls(t) # << >> /\ task[t].ret.err \notin {TransportErr, "read error"} =>
            /\ task[t].ret.err = NoErr
            /\ ~ results[task[t].idx].nil
            /\ results[task[t].idx] = task[t].ret.data
            /\ results[task[t].idx].b \in XRPCBodies(Pending(t).url)
            /\ Len(XRPCCalls(t)) = 1
            /\ XRPCCalls(t)[1] = Pending(t)

\* C19 witness: in one request, a slot that holds the XRPC error object,
\* which is served with status 400 only, and a slot that holds the HTML
\* page an upstream served.
XRPCPassThroughWitness ==
    \E s \in Finished : \E t \in Finished :
        /\ task[s].ret.err = NoErr
        /\ results[s] = Bytes(XRPCErrorBody)
        /\ task[t].ret.err = NoErr
        /\ results[t] = Bytes(<< "<html>" >>)

\* The segments of a URI after its scheme.
Segments(uri) == Split(TrimPrefix(uri, << "at://" >>))

\* The URI cut after its third segment.
Truncated(uri) ==
    << "at://" >> \o Segments(uri)[1] \o << "/" >> \o Segments(uri)[2]
                  \o << "/" >> \o Segments(uri)[3]

\* The URIs of the pool with more than three segments after at://.
LongURIs == { u \in URIPool : HasPrefix(u, << "at://" >>) /\ Len(Segments(u)) > 3 }

\* What parseATURI returns for each of them once cut.
CutParseOf == [u \in LongURIs |-> parseATURI(Truncated(u))]

\* The XRPC request for a parsed URI p of repository did at a PDS endpoint.
RequestFor(pdsEndpoint, did, p) ==
    LET op == XRPCOperation(p.collection, p.rkey)
    IN  [kind |-> op,
         url  |-> IF op = "describeRepo" THEN describeRepoURL(pdsEndpoint, did)
                  ELSE IF op = "listRecords"
                  THEN listRecordsURL(pdsEndpoint, did, p.collection)
                  ELSE getRecordURL(pdsEndpoint, did, p.collection, p.rkey)]

\* The XRPC requests the cut URI gives, over the documents its DID may have.
CutRequestsOf ==
    [u \in LongURIs |->
        { RequestFor(extractPDSEndpoint(d.Service), CutParseOf[u].authority, CutParseOf[u]) :
            d \in DIDDocuments(CutParseOf[u].authority) }]

\* A cut URI has three segments.
CutHasThree == \A u \in LongURIs : Len(Segments(Truncated(u))) = 3

\* C20: a URI with more than three segments after at:// parses, to the same
\* authority, collection and record key as the URI cut after its third
\* segment, and every call its task issues is one the cut URI's task would
\* issue: the same lookups, and the XRPC request of the cut URI's parse.
TrailingSegmentsIgnored ==
    \A t \in Launched :
        task[t].uri \in LongURIs =>
            LET cut == CutParseOf[task[t].uri]
            IN  /\ Parsed(t).err = NoErr
                /\ Parsed(t) = cut
                /\ CutHasThree
                /\ \A j \in 1..Len(netLog[t]) :
                      LET c == netLog[t][j]
                      IN  /\ c.kind = "handle" => c.url = HandleURL(cut.authority)
                          /\ c.kind \in XRPCKinds /\ HasPrefix(cut.authority, << "did:" >>) =>
                                c \in CutRequestsOf[task[t].uri]
                          /\ c.kind \in XRPCKinds =>
                                /\ c.kind = XRPCOperation(cut.collection, cut.rkey)
                                /\ cut.rkey # << >> =>
                                      HasSuffix(c.url, << "&rkey=" >> \o QueryEscape(cut.rkey))

\* C20 witness: the task of at://did:plc:a/c/r/x has fetched the record r
\* of collection c with getRecord.
TrailingSegmentsIgnoredWitness ==
    \E t \in Finished :
        /\ Len(Segments(task[t].uri)) = 4
        /\ task[t].ret.err = NoErr
        /\ Pending(t).kind = "getRecord"
        /\ HasSuffix(Pending(t).url, << "&collection=", "c", "&rkey=", "r" >>)

====
